---- MODULE Spec2Model ----
(***************************************************************************)
(* Color Path (src/main.js): the tile-interaction state machine of the     *)
(* game -- level loading, the player, moves, undo, restart, the math-gate  *)
(* prompt, death and completion -- as driven by the keyboard and button    *)
(* handlers of Game and InputHandler.                                      *)
(***************************************************************************)
EXTENDS Integers, Sequences, FiniteSets, TLC

\* ------------------------------------------------------------------------
\* Bounds of the model
\* ------------------------------------------------------------------------

\* Moves are accepted while player.moveCount is below this bound (the code
\* keeps an unbounded history).
MaxMoves == 5

\* Longest answer typed into the math-gate prompt.
MaxAnswerLen == 2

\* A level is completed only while fewer scores than this are stored (the
\* code stores one more score at every completion, for ever).
MaxScores == 2

\* The star rating is computed for the targets 1..MaxTarget and for up to
\* MaxStarMoves moves.
MaxTarget == 10
MaxStarMoves == 15

\* Requests of any shape are made in the first MaxRequestMoves moves of a
\* level.
MaxRequestMoves == 2

\* ------------------------------------------------------------------------
\* Constants of src/main.js
\* ------------------------------------------------------------------------

EMPTY == "empty"
GROUND == "ground"
OBSTACLE == "obstacle"
COLOR_CHANGE == "colorChange"
START == "start"
GOAL == "goal"
MATH_GATE == "mathGate"
KEY == "key"
DOOR == "door"
TELEPORT == "teleport"
FRAGILE == "fragile"

TILE_TYPES ==
    {EMPTY, GROUND, OBSTACLE, COLOR_CHANGE, START, GOAL, MATH_GATE, KEY,
     DOOR, TELEPORT, FRAGILE}

RED == "red"
BLUE == "blue"
YELLOW == "yellow"
NEUTRAL == "neutral"

COLORS == {RED, BLUE, YELLOW, NEUTRAL}

\* JavaScript's null (no tile, no player, no open prompt), the null that a
\* cancelled prompt() returns in place of a string, and the NaN of parseInt.
Null == [null |-> TRUE]
NullAnswer == <<"null">>
NaN == [nan |-> TRUE, value |-> 0]

\* LeaderboardSystem.maxEntries
maxEntries == 10

\* ------------------------------------------------------------------------
\* Level descriptors
\* ------------------------------------------------------------------------

LEVEL_1 ==
    [width |-> 16, height |-> 10,
     startPos |-> [x |-> 1, y |-> 5],
     goalPos |-> [x |-> 14, y |-> 5],
     targetMoves |-> 20,
     grid |-> <<
        <<"O", "O", "O", "O", "O", "O", "O", "O", "O", "O", "O", "O", "O", "O", "O", "O">>,
        <<"O", "E", "E", "N", "N", "E", "E", "N", "N", "E", "E", "N", "N", "E", "E", "O">>,
        <<"O", "E", "N", "B", "B", "N", "N", "Y", "Y", "N", "N", "R", "R", "N", "E", "O">>,
        <<"O", "E", "N", "B", "CB", "E", "E", "Y", "CY", "E", "E", "CR", "R", "N", "E", "O">>,
        <<"O", "E", "N", "B", "B", "N", "N", "Y", "Y", "N", "N", "R", "R", "N", "E", "O">>,
        <<"O", "S", "R", "R", "CB", "B", "B", "CY", "Y", "Y", "CR", "R", "R", "N", "G", "O">>,
        <<"O", "E", "N", "B", "B", "N", "N", "Y", "Y", "N", "N", "R", "R", "N", "E", "O">>,
        <<"O", "E", "N", "B", "B", "E", "E", "Y", "Y", "E", "E", "R", "R", "N", "E", "O">>,
        <<"O", "E", "E", "N", "N", "E", "E", "N", "N", "E", "E", "N", "N", "E", "E", "O">>,
        <<"O", "O", "O", "O", "O", "O", "O", "O", "O", "O", "O", "O", "O", "O", "O", "O">> >>]

LEVEL_2 ==
    [width |-> 14, height |-> 10,
     startPos |-> [x |-> 1, y |-> 5],
     goalPos |-> [x |-> 12, y |-> 5],
     mathGates |-> <<[x |-> 4, y |-> 5, question |-> "3 + 2", answer |-> 5],
                     [x |-> 9, y |-> 5, question |-> "4 x 2", answer |-> 8]>>,
     targetMoves |-> 25,
     grid |-> <<
        <<"O", "O", "O", "O", "O", "O", "O", "O", "O", "O", "O", "O", "O", "O">>,
        <<"O", "E", "E", "N", "N", "E", "E", "N", "N", "E", "E", "N", "E", "O">>,
        <<"O", "E", "N", "R", "R", "N", "N", "Y", "Y", "N", "N", "R", "N", "O">>,
        <<"O", "E", "N", "R", "R", "E", "E", "Y", "Y", "E", "E", "R", "N", "O">>,
        <<"O", "E", "N", "R", "CB", "N", "N", "CY", "Y", "N", "N", "CR", "N", "O">>,
        <<"O", "S", "R", "R", "MG", "B", "B", "B", "MG", "Y", "R", "R", "G", "O">>,
        <<"O", "E", "N", "R", "R", "N", "N", "B", "B", "N", "N", "R", "N", "O">>,
        <<"O", "E", "N", "R", "R", "E", "E", "B", "B", "E", "E", "R", "N", "O">>,
        <<"O", "E", "E", "N", "N", "E", "E", "N", "N", "E", "E", "N", "E", "O">>,
        <<"O", "O", "O", "O", "O", "O", "O", "O", "O", "O", "O", "O", "O", "O">> >>]

LEVEL_3 ==
    [width |-> 16, height |-> 12,
     startPos |-> [x |-> 1, y |-> 6],
     goalPos |-> [x |-> 14, y |-> 6],
     targetMoves |-> 35,
     grid |-> <<
        <<"O", "O", "O", "O", "O", "O", "O", "O", "O", "O", "O", "O", "O", "O", "O", "O">>,
        <<"O", "E", "E", "E", "N", "N", "E", "E", "E", "E", "N", "N", "E", "E", "E", "O">>,
        <<"O", "E", "N", "R", "R", "R", "N", "E", "E", "N", "Y", "Y", "Y", "N", "E", "O">>,
        <<"O", "E", "N", "R", "K", "R", "N", "E", "E", "N", "Y", "K", "Y", "N", "E", "O">>,
        <<"O", "E", "N", "R", "R", "CB", "N", "E", "E", "N", "CY", "Y", "Y", "N", "E", "O">>,
        <<"O", "E", "N", "N", "N", "B", "N", "E", "E", "N", "Y", "N", "N", "N", "E", "O">>,
        <<"O", "S", "R", "R", "D", "B", "B", "B", "D", "Y", "Y", "D", "R", "R", "G", "O">>,
        <<"O", "E", "N", "N", "N", "B", "N", "E", "E", "N", "Y", "N", "N", "N", "E", "O">>,
        <<"O", "E", "N", "R", "R", "R", "N", "E", "E", "N", "Y", "Y", "Y", "N", "E", "O">>,
        <<"O", "E", "N", "R", "CR", "R", "N", "E", "E", "N", "Y", "CR", "Y", "N", "E", "O">>,
        <<"O", "E", "E", "N", "N", "N", "E", "E", "E", "E", "N", "N", "N", "E", "E", "O">>,
        <<"O", "O", "O", "O", "O", "O", "O", "O", "O", "O", "O", "O", "O", "O", "O", "O">> >>]

LEVEL_4 ==
    [width |-> 18, height |-> 12,
     startPos |-> [x |-> 1, y |-> 6],
     goalPos |-> [x |-> 16, y |-> 6],
     targetMoves |-> 40,
     grid |-> <<
        <<"O", "O", "O", "O", "O", "O", "O", "O", "O", "O", "O", "O", "O", "O", "O", "O", "O", "O">>,
        <<"O", "E", "E", "N", "N", "N", "E", "E", "E", "E", "E", "E", "N", "N", "N", "E", "E", "O">>,
        <<"O", "E", "N", "R", "R", "F", "N", "E", "N", "N", "E", "N", "Y", "Y", "F", "N", "E", "O">>,
        <<"O", "E", "N", "R", "CB", "F", "N", "E", "N", "B", "N", "E", "N", "CY", "Y", "N", "E", "O">>,
        <<"O", "E", "N", "F", "B", "B", "N", "E", "N", "B", "N", "E", "N", "Y", "Y", "N", "E", "O">>,
        <<"O", "E", "N", "F", "B", "B", "N", "E", "N", "B", "N", "E", "N", "Y", "F", "N", "E", "O">>,
        <<"O", "S", "R", "F", "F", "F", "B", "B", "B", "B", "B", "B", "Y", "F", "F", "R", "G", "O">>,
        <<"O", "E", "N", "R", "R", "F", "N", "E", "N", "B", "N", "E", "N", "Y", "Y", "N", "E", "O">>,
        <<"O", "E", "N", "R", "R", "R", "N", "E", "N", "CR", "N", "E", "N", "Y", "Y", "N", "E", "O">>,
        <<"O", "E", "N", "R", "R", "R", "N", "E", "N", "N", "N", "E", "N", "Y", "Y", "N", "E", "O">>,
        <<"O", "E", "E", "N", "N", "N", "E", "E", "E", "E", "E", "E", "N", "N", "N", "E", "E", "O">>,
        <<"O", "O", "O", "O", "O", "O", "O", "O", "O", "O", "O", "O", "O", "O", "O", "O", "O", "O">> >>]

LEVEL_5 ==
    [width |-> 20, height |-> 14,
     startPos |-> [x |-> 1, y |-> 7],
     goalPos |-> [x |-> 18, y |-> 7],
     mathGates |-> <<[x |-> 6, y |-> 7, question |-> "10 - 3", answer |-> 7],
                     [x |-> 13, y |-> 7, question |-> "6 x 3", answer |-> 18]>>,
     targetMoves |-> 50,
     grid |-> <<
        <<"O", "O", "O", "O", "O", "O", "O", "O", "O", "O", "O", "O", "O", "O", "O", "O", "O", "O", "O", "O">>,
        <<"O", "E", "E", "E", "N", "N", "N", "E", "E", "E", "E", "E", "E", "N", "N", "N", "E", "E", "E", "O">>,
        <<"O", "E", "N", "R", "R", "F", "R", "N", "E", "N", "N", "E", "N", "Y", "F", "Y", "Y", "N", "E", "O">>,
        <<"O", "E", "N", "R", "K", "F", "CB", "N", "E", "N", "B", "N", "E", "N", "CY", "F", "K", "N", "E", "O">>,
        <<"O", "E", "N", "F", "R", "R", "B", "N", "E", "N", "B", "N", "E", "N", "Y", "Y", "F", "N", "E", "O">>,
        <<"O", "E", "N", "F", "D", "B", "B", "N", "E", "N", "B", "N", "E", "N", "Y", "D", "F", "N", "E", "O">>,
        <<"O", "E", "N", "R", "N", "B", "B", "N", "E", "N", "CR", "N", "E", "N", "Y", "N", "Y", "N", "E", "O">>,
        <<"O", "S", "R", "F", "F", "F", "MG", "B", "B", "B", "B", "B", "B", "MG", "F", "F", "F", "R", "G", "O">>,
        <<"O", "E", "N", "R", "R", "R", "R", "N", "E", "N", "B", "N", "E", "N", "Y", "Y", "Y", "N", "E", "O">>,
        <<"O", "E", "N", "R", "R", "F", "R", "N", "E", "N", "B", "N", "E", "N", "Y", "F", "Y", "N", "E", "O">>,
        <<"O", "E", "N", "F", "CB", "F", "R", "N", "E", "N", "B", "N", "E", "N", "Y", "F", "CR", "N", "E", "O">>,
        <<"O", "E", "N", "R", "R", "R", "R", "N", "E", "N", "N", "N", "E", "N", "Y", "Y", "Y", "N", "E", "O">>,
        <<"O", "E", "E", "N", "N", "N", "N", "E", "E", "E", "E", "E", "E", "N", "N", "N", "N", "E", "E", "O">>,
        <<"O", "O", "O", "O", "O", "O", "O", "O", "O", "O", "O", "O", "O", "O", "O", "O", "O", "O", "O", "O">> >>]

\* The LEVELS array is the program's level-descriptor input ("HOW TO ADD MORE
\* LEVELS", src/main.js:86-105).  Besides the five shipped levels the model
\* is run on two compact descriptors in the same format, on which every tile
\* kind lies within MaxMoves steps of the start.
\*
\*      x=0  1   2   3
\* y=0   B   O   B   MG         (3,0): a gate, and no mathGates list
\* y=1   F   S   CB  N
\* y=2   E   R   N   G
LEVEL_A ==
    [width |-> 4, height |-> 3,
     startPos |-> [x |-> 1, y |-> 1],
     goalPos |-> [x |-> 3, y |-> 2],
     targetMoves |-> 3,
     grid |-> <<
        <<"B", "O", "B", "MG">>,
        <<"F", "S", "CB", "N">>,
        <<"E", "R", "N", "G">> >>]

\*      x=0  1   2
\* y=0   D   K   Y          mathGates lists (2,1), "3 + 2" = 5,
\* y=1   D   S   MG         and (2,0), which is ground
\* y=2   N   E   G
LEVEL_B ==
    [width |-> 3, height |-> 3,
     startPos |-> [x |-> 1, y |-> 1],
     goalPos |-> [x |-> 2, y |-> 2],
     mathGates |-> <<[x |-> 2, y |-> 1, question |-> "3 + 2", answer |-> 5],
                     [x |-> 2, y |-> 0, question |-> "1 + 1", answer |-> 2]>>,
     targetMoves |-> 2,
     grid |-> <<
        <<"D", "K", "Y">>,
        <<"D", "S", "MG">>,
        <<"N", "E", "G">> >>]

\* A 3x3 level with the start at (0,0), a colour changer at (1,0) and the
\* goal at (2,0); changer is the token of the colour changer.
\*
\*      x=0  1   2
\* y=0   S   C?  G
\* y=1   N   N   N
\* y=2   N   N   N
LEVEL_C(changer) ==
    [width |-> 3, height |-> 3,
     startPos |-> [x |-> 0, y |-> 0],
     goalPos |-> [x |-> 2, y |-> 0],
     targetMoves |-> 2,
     grid |-> <<
        <<"S", changer, "G">>,
        <<"N", "N", "N">>,
        <<"N", "N", "N">> >>]

\* The level arrays the model is run on: the shipped one and the compact one.
ShippedLevels == <<LEVEL_1, LEVEL_2, LEVEL_3, LEVEL_4, LEVEL_5>>
CompactLevels == <<LEVEL_A, LEVEL_B>>
LevelArrays == {ShippedLevels, CompactLevels}

\* Corridor levels for the star rating, with every target from 1 to
\* MaxTarget: "S N G" is completed in 2, 4, 6, ... moves and "N S G" in
\* 1, 3, 5, ... moves, by walking to and fro.
StarLevel(row, startX, target) ==
    [width |-> 3, height |-> 1,
     startPos |-> [x |-> startX, y |-> 0],
     goalPos |-> [x |-> 2, y |-> 0],
     targetMoves |-> target,
     grid |-> <<row>>]

StarLevelArrays ==
    {<<StarLevel(<<"S", "N", "G">>, 0, target)>> : target \in 1..MaxTarget}
        \cup {<<StarLevel(<<"N", "S", "G">>, 1, target)>> : target \in 1..MaxTarget}

\* The level arrays for players of every colour.
ChangerLevels == {<<LEVEL_C(changer)>> : changer \in {"CR", "CB", "CY"}}
ColourLevelArrays == {CompactLevels} \cup ChangerLevels

\* ------------------------------------------------------------------------
\* parseTile
\* ------------------------------------------------------------------------

parseTile(tileStr) ==
    CASE tileStr = "O" -> [type |-> OBSTACLE, color |-> Null]
      [] tileStr = "E" -> [type |-> EMPTY, color |-> Null]
      [] tileStr = "S" -> [type |-> START, color |-> NEUTRAL]
      [] tileStr = "G" -> [type |-> GOAL, color |-> NEUTRAL]
      [] tileStr = "N" -> [type |-> GROUND, color |-> NEUTRAL]
      [] tileStr = "R" -> [type |-> GROUND, color |-> RED]
      [] tileStr = "B" -> [type |-> GROUND, color |-> BLUE]
      [] tileStr = "Y" -> [type |-> GROUND, color |-> YELLOW]
      [] tileStr = "CR" -> [type |-> COLOR_CHANGE, color |-> RED]
      [] tileStr = "CB" -> [type |-> COLOR_CHANGE, color |-> BLUE]
      [] tileStr = "CY" -> [type |-> COLOR_CHANGE, color |-> YELLOW]
      [] tileStr = "MG" -> [type |-> MATH_GATE, color |-> NEUTRAL, locked |-> TRUE]
      [] tileStr = "K" -> [type |-> KEY, color |-> NEUTRAL, collected |-> FALSE]
      [] tileStr = "D" -> [type |-> DOOR, color |-> NEUTRAL, locked |-> TRUE]
      [] tileStr = "F" -> [type |-> FRAGILE, color |-> NEUTRAL, used |-> FALSE]
      [] OTHER -> [type |-> GROUND, color |-> NEUTRAL]

\* ------------------------------------------------------------------------
\* LevelManager
\* ------------------------------------------------------------------------

\* A grid is the 2D array this.grid: grid[y+1][x+1] is the tile at (x,y).
getTile(level, g, x, y) ==
    IF x < 0 \/ x >= level.width \/ y < 0 \/ y >= level.height
    THEN Null
    ELSE g[y + 1][x + 1]

\* Variant: only the edge of the grid stops a move.
isWalkableThroughWalls(level, g, x, y) ==
    getTile(level, g, x, y) # Null

\* Variant: a pit stops a move as an obstacle does.
isWalkableNoPits(level, g, x, y) ==
    LET tile == getTile(level, g, x, y)
    IN  IF tile = Null THEN FALSE ELSE tile.type \notin {OBSTACLE, EMPTY}

isWalkable(level, g, x, y) ==
    LET tile == getTile(level, g, x, y)
    IN  IF tile = Null THEN FALSE ELSE tile.type # OBSTACLE

\* The grid of a descriptor, parsed tile by tile.
parseGrid(levelConfig) ==
    [yy \in 1..levelConfig.height |->
        [xx \in 1..levelConfig.width |-> parseTile(levelConfig.grid[yy][xx])]]

\* One step of the mathGates.forEach of loadLevel: the question and answer
\* are attached only when the coordinate addresses a MATH_GATE tile.
bindGate(level, g, gate) ==
    LET tile == getTile(level, g, gate.x, gate.y)
    IN  IF tile # Null /\ tile.type = MATH_GATE
        THEN [g EXCEPT ![gate.y + 1][gate.x + 1] =
                 ("question" :> gate.question) @@ ("answer" :> gate.answer) @@ tile]
        ELSE g

RECURSIVE bindGates(_, _, _, _)
bindGates(level, g, gates, i) ==
    IF i > Len(gates) THEN g
    ELSE bindGates(level, bindGate(level, g, gates[i]), gates, i + 1)

\* Variant: the index is stored before it is checked.
loadLevelStoresIndexFirst(lv, lm, levelIndex) ==
    IF levelIndex < 0 \/ levelIndex >= Len(lv)
    THEN [currentLevelIndex |-> levelIndex,
          grid |-> lm.grid, ok |-> FALSE]
    ELSE LET levelConfig == lv[levelIndex + 1]
             parsed == parseGrid(levelConfig)
         IN  [currentLevelIndex |-> levelIndex,
              grid |-> IF "mathGates" \in DOMAIN levelConfig
                       THEN bindGates(levelConfig, parsed, levelConfig.mathGates, 1)
                       ELSE parsed,
              ok |-> TRUE]

\* loadLevel(levelIndex) on the level array lv: the record of the fields it
\* leaves in the LevelManager, and its return value.
loadLevel(lv, lm, levelIndex) ==
    IF levelIndex < 0 \/ levelIndex >= Len(lv)
    THEN [currentLevelIndex |-> lm.currentLevelIndex,
          grid |-> lm.grid, ok |-> FALSE]
    ELSE LET levelConfig == lv[levelIndex + 1]
             parsed == parseGrid(levelConfig)
         IN  [currentLevelIndex |-> levelIndex,
              grid |-> IF "mathGates" \in DOMAIN levelConfig
                       THEN bindGates(levelConfig, parsed, levelConfig.mathGates, 1)
                       ELSE parsed,
              ok |-> TRUE]

hasNextLevel(lv, idx) == idx + 1 < Len(lv)

\* goToNextLevel(): the fields it leaves in the LevelManager, and its
\* return value.
goToNextLevel(lv, lm) ==
    IF hasNextLevel(lv, lm.currentLevelIndex)
    THEN [loadLevel(lv, lm, lm.currentLevelIndex + 1) EXCEPT !.ok = TRUE]
    ELSE [currentLevelIndex |-> lm.currentLevelIndex,
          grid |-> lm.grid, ok |-> FALSE]

\* ------------------------------------------------------------------------
\* Player
\* ------------------------------------------------------------------------

newPlayer(startX, startY, initialColor) ==
    [startX |-> startX, startY |-> startY, x |-> startX, y |-> startY,
     color |-> initialColor, initialColor |-> initialColor,
     keys |-> 0, moveCount |-> 0, moveHistory |-> <<>>]

\* Variant: the snapshot is taken after the position was updated.
moveToSnapshotsTarget(p, x, y) ==
    [p EXCEPT !.moveHistory =
                  Append(@, [x |-> x, y |-> y, color |-> p.color, keys |-> p.keys]),
              !.x = x,
              !.y = y,
              !.moveCount = @ + 1]

moveTo(p, x, y) ==
    [p EXCEPT !.moveHistory =
                  Append(@, [x |-> p.x, y |-> p.y, color |-> p.color, keys |-> p.keys]),
              !.x = x,
              !.y = y,
              !.moveCount = @ + 1]

Max(a, b) == IF a >= b THEN a ELSE b

\* Variant: undo() reports success also on an empty history.
undoOkAlways(p) == TRUE

\* undo(): the player after the call; undoOk is its return value.
undoOk(p) == Len(p.moveHistory) > 0

\* Variant: the colour of the snapshot is not restored.
undoKeepsColour(p) ==
    IF Len(p.moveHistory) > 0
    THEN LET lastState == p.moveHistory[Len(p.moveHistory)]
         IN  [p EXCEPT !.moveHistory = SubSeq(@, 1, Len(@) - 1),
                       !.x = lastState.x,
                       !.y = lastState.y,
                       !.keys = lastState.keys,
                       !.moveCount = Max(0, @ - 1)]
    ELSE p

\* Variant: the move count is not taken back.
undoKeepsMoveCount(p) ==
    IF Len(p.moveHistory) > 0
    THEN LET lastState == p.moveHistory[Len(p.moveHistory)]
         IN  [p EXCEPT !.moveHistory = SubSeq(@, 1, Len(@) - 1),
                       !.x = lastState.x,
                       !.y = lastState.y,
                       !.color = lastState.color,
                       !.keys = lastState.keys]
    ELSE p

undo(p) ==
    IF Len(p.moveHistory) > 0
    THEN LET lastState == p.moveHistory[Len(p.moveHistory)]
         IN  [p EXCEPT !.moveHistory = SubSeq(@, 1, Len(@) - 1),
                       !.x = lastState.x,
                       !.y = lastState.y,
                       !.color = lastState.color,
                       !.keys = lastState.keys,
                       !.moveCount = Max(0, @ - 1)]
    ELSE p

\* Variant: the colour is not taken.
setColorKeepsColour(p, color) == p

\* Variant: the colour is cleared.
setColorToNeutral(p, color) == [p EXCEPT !.color = NEUTRAL]

setColor(p, color) == [p EXCEPT !.color = color]

addKey(p) == [p EXCEPT !.keys = @ + 1]

\* useKey(): the player after the call; useKeyOk is its return value.
useKeyOk(p) == p.keys > 0

\* Variant: the key is not taken.
useKeyKeepsKey(p) == p

useKey(p) == IF p.keys > 0 THEN [p EXCEPT !.keys = @ - 1] ELSE p

\* Variant: the keys survive a reset.
resetKeepsKeys(p) ==
    [p EXCEPT !.x = p.startX,
              !.y = p.startY,
              !.color = p.initialColor,
              !.moveCount = 0,
              !.moveHistory = <<>>]

reset(p) ==
    [p EXCEPT !.x = p.startX,
              !.y = p.startY,
              !.color = p.initialColor,
              !.keys = 0,
              !.moveCount = 0,
              !.moveHistory = <<>>]

\* ------------------------------------------------------------------------
\* parseInt, as showMathPuzzle applies it to the text typed into prompt()
\* ------------------------------------------------------------------------

\* A typed answer is a sequence of characters; a Number is its value, or NaN.
AnswerChars == {"0", "5", "7", "-", "+", " ", "x", "."}

RECURSIVE StringsUpTo(_)
StringsUpTo(n) ==
    IF n = 0 THEN {<<>>}
    ELSE LET shorter == StringsUpTo(n - 1)
         IN  shorter \cup {Append(s, c) : s \in {t \in shorter : Len(t) = n - 1},
                                          c \in AnswerChars}

Answers == StringsUpTo(MaxAnswerLen)

digitValue(c) ==
    CASE c = "0" -> 0 [] c = "1" -> 1 [] c = "2" -> 2 [] c = "3" -> 3
      [] c = "4" -> 4 [] c = "5" -> 5 [] c = "6" -> 6 [] c = "7" -> 7
      [] c = "8" -> 8 [] c = "9" -> 9
      [] c \in {"a", "A"} -> 10 [] c \in {"b", "B"} -> 11
      [] c \in {"c", "C"} -> 12 [] c \in {"d", "D"} -> 13
      [] c \in {"e", "E"} -> 14 [] c \in {"f", "F"} -> 15
      [] OTHER -> 99

RECURSIVE skipWhite(_)
skipWhite(s) ==
    IF Len(s) > 0 /\ s[1] = " " THEN skipWhite(Tail(s)) ELSE s

\* The value of the longest prefix of s made of digits of the radix;
\* seen tells whether a digit was read.
RECURSIVE readDigits(_, _, _, _)
readDigits(s, radix, acc, seen) ==
    IF Len(s) > 0 /\ digitValue(s[1]) < radix
    THEN readDigits(Tail(s), radix, acc * radix + digitValue(s[1]), TRUE)
    ELSE [value |-> acc, seen |-> seen]

parseInt(str) ==
    LET s1 == skipWhite(str)
        negative == Len(s1) > 0 /\ s1[1] = "-"
        s2 == IF Len(s1) > 0 /\ s1[1] \in {"-", "+"} THEN Tail(s1) ELSE s1
        hex == Len(s2) >= 2 /\ s2[1] = "0" /\ s2[2] \in {"x", "X"}
        s3 == IF hex THEN SubSeq(s2, 3, Len(s2)) ELSE s2
        r == readDigits(s3, IF hex THEN 16 ELSE 10, 0, FALSE)
    IN  IF ~r.seen THEN NaN
        ELSE [nan |-> FALSE, value |-> IF negative THEN 0 - r.value ELSE r.value]

\* Variant: a missing answer counts as 0.
answerMatchesMissingIsZero(answer, tile) ==
    LET n == parseInt(answer)
    IN  IF n.nan THEN FALSE
        ELSE n.value = (IF "answer" \in DOMAIN tile THEN tile.answer ELSE 0)

\* parseInt(answer) === tile.answer: NaN equals nothing, and a number never
\* equals undefined (the answer field of a gate no puzzle was bound to).
answerMatches(answer, tile) ==
    LET n == parseInt(answer)
    IN  IF n.nan \/ "answer" \notin DOMAIN tile THEN FALSE
        ELSE n.value = tile.answer

\* ------------------------------------------------------------------------
\* LeaderboardSystem
\* ------------------------------------------------------------------------

\* Completion times the timer can report.
Times == {1, 2}

\* Array.prototype.sort with (a, b) => a.time - b.time is stable.
RECURSIVE insertByTime(_, _)
insertByTime(sorted, e) ==
    IF Len(sorted) = 0 THEN <<e>>
    ELSE IF sorted[Len(sorted)].time - e.time > 0
         THEN Append(insertByTime(SubSeq(sorted, 1, Len(sorted) - 1), e),
                     sorted[Len(sorted)])
         ELSE Append(sorted, e)

RECURSIVE sortByTime(_)
sortByTime(s) ==
    IF Len(s) = 0 THEN <<>>
    ELSE insertByTime(sortByTime(SubSeq(s, 1, Len(s) - 1)), s[Len(s)])

Min(a, b) == IF a <= b THEN a ELSE b

\* The names typed on the welcome screen, and the times, that the
\* leaderboard is called with on its own; the game itself is played with
\* the name field left empty.
ScoreNames == {"", "Ann"}
ScoreTimes == {1, 2}
playerName == "Anonymous"

\* newEntry of addScore (the date is left out)
newEntry(name, time) ==
    [name |-> IF name = "" THEN "Anonymous" ELSE name, time |-> time]

\* Variant: the list is cut before the new entry is sorted in.
addScoreTrimsFirst(stored, name, time) ==
    LET trimmed == SubSeq(stored, 1, Min(maxEntries - 1, Len(stored)))
    IN  sortByTime(Append(trimmed, newEntry(name, time)))

\* addScore: the stored list after the call.
addScore(stored, name, time) ==
    LET pushed == Append(stored, newEntry(name, time))
        sorted == sortByTime(pushed)
    IN  SubSeq(sorted, 1, Min(maxEntries, Len(sorted)))

\* addScore: the rank it returns, the place of the new entry in the list
\* that was saved, or -1.
addScoreRank(stored, name, time) ==
    LET old == [i \in 1..Len(stored) |-> [time |-> stored[i].time, isNew |-> FALSE]]
        sorted == sortByTime(Append(old, [time |-> time, isNew |-> TRUE]))
        index == CHOOSE i \in 1..Len(sorted) : sorted[i].isNew
    IN  IF index <= maxEntries THEN index ELSE -1

\* getTargetMoves and calculateStars.  moveCount <= target * 1.3 is a
\* comparison of doubles; for whole numbers of moves and targets it comes
\* out as the comparison of 10 * moveCount with 13 * target (the double
\* 1.3 lies above 13/10 by less than 5e-17, and target * 1.3 is rounded to
\* the whole number 13 * target / 10 whenever that is one).
getTargetMoves(levelConfig) ==
    IF "targetMoves" \in DOMAIN levelConfig /\ levelConfig.targetMoves # 0
    THEN levelConfig.targetMoves
    ELSE 999

\* Variant: the thresholds are exclusive.
calculateStarsExclusive(levelConfig, moveCount) ==
    LET target == getTargetMoves(levelConfig)
    IN  IF moveCount < target THEN 3
        ELSE IF moveCount * 10 < target * 13 THEN 2
        ELSE 1

\* Variant: the rating has two tiers only.
calculateStarsTwoTiers(levelConfig, moveCount) ==
    LET target == getTargetMoves(levelConfig)
    IN  IF moveCount <= target THEN 3 ELSE 1

calculateStars(levelConfig, moveCount) ==
    LET target == getTargetMoves(levelConfig)
    IN  IF moveCount <= target THEN 3
        ELSE IF moveCount * 10 <= target * 13 THEN 2
        ELSE 1

\* ------------------------------------------------------------------------
\* State
\* ------------------------------------------------------------------------

VARIABLES
    LEVELS,             \* the LEVELS array the page was loaded with
    currentLevelIndex,  \* levelManager.currentLevelIndex
    grid,               \* levelManager.grid
    player,             \* game.player
    isPlaying,          \* game.isPlaying
    screen,             \* which of the four screens is not hidden
    prompt,             \* the gate whose prompt() is open, or Null
    scores,             \* the leaderboard kept in localStorage
    outcome             \* what the last move, answer or undo came to

vars ==
    <<LEVELS, currentLevelIndex, grid, player, isPlaying, screen, prompt,
      scores, outcome>>

\* The outcome of a handler: Blocked, Continued, Died (playerDied was called,
\* with this message), Completed (levelCompleted was called, and showed
\* this many stars), Resolving (the
\* prompt is open), Undone or NothingToUndo (what undo() returned), and None
\* after a level was started or restarted.
Outcome(kind) == [kind |-> kind, message |-> ""]
Died(message) == [kind |-> "Died", message |-> message]
Completed(stars) == [kind |-> "Completed", message |-> "", stars |-> stars]

\* levelManager.currentLevel
currentLevel == LEVELS[currentLevelIndex + 1]

\* The four key directions of handleKeyPress: w, s, a, d.
Dirs == {<<0, -1>>, <<0, 1>>, <<-1, 0>>, <<1, 0>>}

\* new Game(): no level loaded, no player, the welcome screen showing.
Init ==
    /\ LEVELS \in LevelArrays
    /\ currentLevelIndex = 0
    /\ grid = Null
    /\ player = Null
    /\ isPlaying = FALSE
    /\ screen = "welcome"
    /\ prompt = Null
    /\ scores = <<>>
    /\ outcome = Outcome("None")

\* ------------------------------------------------------------------------
\* Game
\* ------------------------------------------------------------------------

\* startGame(levelIndex)
startGame(levelIndex) ==
    LET loaded == loadLevel(LEVELS, [currentLevelIndex |-> currentLevelIndex,
                                     grid |-> grid], levelIndex)
    IN  IF ~loaded.ok
        THEN UNCHANGED <<currentLevelIndex, grid, player, isPlaying, screen>>
        ELSE LET startPos == LEVELS[levelIndex + 1].startPos
             IN  /\ currentLevelIndex' = loaded.currentLevelIndex
                 /\ grid' = loaded.grid
                 /\ player' = newPlayer(startPos.x, startPos.y, RED)
                 /\ screen' = "game"
                 /\ isPlaying' = TRUE

\* `You can't walk on ${tile.color} ground!`
groundMessage(color) ==
    CASE color = RED -> "You can't walk on red ground!"
      [] color = BLUE -> "You can't walk on blue ground!"
      [] color = YELLOW -> "You can't walk on yellow ground!"
      [] OTHER -> "You can't walk on this ground!"

\* handleTileInteraction(tile), for the player p standing on tile at (x,y)
\* of grid g: the player and grid it leaves, and which of playerDied,
\* levelCompleted and showMathPuzzle it calls.  One operator per case of
\* the switch; stay is the result of a case that does nothing.
tileEmpty(stay) ==
    [stay EXCEPT !.call = "playerDied", !.message = "You fell into a pit!"]

\* Variants of the colour test: the rule of the first version of the game
\* (one's own colour kills), the test without its neutral exemption, and
\* a test that spares a neutral player.
groundIsLethalOwnColour(tile, playerColor) ==
    tile.color = playerColor /\ tile.color # NEUTRAL

groundIsLethalNoNeutral(tile, playerColor) ==
    tile.color # playerColor

groundIsLethalSparesNeutralPlayer(tile, playerColor) ==
    tile.color # playerColor /\ tile.color # NEUTRAL /\ playerColor # NEUTRAL

groundIsLethal(tile, playerColor) ==
    tile.color # playerColor /\ tile.color # NEUTRAL

tileGround(stay, tile) ==
    IF groundIsLethal(tile, stay.player.color)
    THEN [stay EXCEPT !.call = "playerDied",
                      !.message = groundMessage(tile.color)]
    ELSE stay

tileFragile(stay, tile, x, y) ==
    IF tile.used
    THEN [stay EXCEPT !.call = "playerDied",
                      !.message = "The fragile tile crumbled beneath you!"]
    ELSE [stay EXCEPT !.grid[y + 1][x + 1].used = TRUE]

tileColorChange(stay, tile) ==
    [stay EXCEPT !.player = setColor(stay.player, tile.color)]

\* Variant: a key is taken at every arrival.
tileKeyCollectsAgain(stay, tile, x, y) ==
    [stay EXCEPT !.grid[y + 1][x + 1].collected = TRUE,
                 !.player = addKey(stay.player)]

tileKey(stay, tile, x, y) ==
    IF ~tile.collected
    THEN [stay EXCEPT !.grid[y + 1][x + 1].collected = TRUE,
                      !.player = addKey(stay.player)]
    ELSE stay

\* Variant: an arrival on an open door locks it again.
tileDoorLocksBehind(stay, tile, x, y) ==
    IF tile.locked
    THEN IF useKeyOk(stay.player)
         THEN [stay EXCEPT !.player = useKey(stay.player),
                           !.grid[y + 1][x + 1].locked = FALSE]
         ELSE [stay EXCEPT !.call = "playerDied",
                           !.message = "You need a key to open this door!"]
    ELSE [stay EXCEPT !.grid[y + 1][x + 1].locked = TRUE]

tileDoor(stay, tile, x, y) ==
    IF tile.locked
    THEN IF useKeyOk(stay.player)
         THEN [stay EXCEPT !.player = useKey(stay.player),
                           !.grid[y + 1][x + 1].locked = FALSE]
         ELSE [stay EXCEPT !.call = "playerDied",
                           !.message = "You need a key to open this door!"]
    ELSE stay

tileMathGate(stay, tile) ==
    IF tile.locked THEN [stay EXCEPT !.call = "showMathPuzzle"] ELSE stay

\* Variant: the goal does nothing.
tileGoalIgnored(stay) == stay

tileGoal(stay) == [stay EXCEPT !.call = "levelCompleted"]

\* Variant: a tile without a case kills, as a pit does.
tileNoCaseIsPit(stay) == tileEmpty(stay)

\* No case of the switch matches a START tile (nor OBSTACLE, TELEPORT).
tileNoCase(stay) == stay

handleTileInteraction(p, g, tile, x, y) ==
    LET stay == [player |-> p, grid |-> g, call |-> "none", message |-> ""]
    IN  CASE tile.type = EMPTY -> tileEmpty(stay)
          [] tile.type = GROUND -> tileGround(stay, tile)
          [] tile.type = FRAGILE -> tileFragile(stay, tile, x, y)
          [] tile.type = COLOR_CHANGE -> tileColorChange(stay, tile)
          [] tile.type = KEY -> tileKey(stay, tile, x, y)
          [] tile.type = DOOR -> tileDoor(stay, tile, x, y)
          [] tile.type = MATH_GATE -> tileMathGate(stay, tile)
          [] tile.type = GOAL -> tileGoal(stay)
          [] OTHER -> tileNoCase(stay)

\* movePlayer(dx, dy), with playerDied, levelCompleted and the opening of
\* the prompt of showMathPuzzle.  prompt() blocks the page: the answer is
\* the next step, AnswerPrompt.
movePlayer(dx, dy) ==
    LET newX == player.x + dx
        newY == player.y + dy
    IN  IF ~isWalkable(currentLevel, grid, newX, newY)
        THEN /\ outcome' = Outcome("Blocked")
             /\ UNCHANGED <<player, grid, isPlaying, screen, prompt, scores>>
        ELSE LET moved == moveTo(player, newX, newY)
                 tile == getTile(currentLevel, grid, newX, newY)
                 r == handleTileInteraction(moved, grid, tile, newX, newY)
             IN  /\ player' = r.player
                 /\ grid' = r.grid
                 /\ CASE r.call = "playerDied" ->
                           /\ isPlaying' = FALSE
                           /\ screen' = "failure"
                           /\ outcome' = Died(r.message)
                           /\ UNCHANGED <<prompt, scores>>
                      [] r.call = "levelCompleted" ->
                           /\ isPlaying' = FALSE
                           /\ screen' = "success"
                           /\ \E completionTime \in Times :
                                  scores' = addScore(scores, playerName, completionTime)
                           /\ outcome' = Completed(calculateStars(currentLevel,
                                                                  r.player.moveCount))
                           /\ UNCHANGED prompt
                      [] r.call = "showMathPuzzle" ->
                           /\ isPlaying' = FALSE
                           /\ prompt' = [x |-> newX, y |-> newY]
                           /\ outcome' = Outcome("Resolving")
                           /\ UNCHANGED <<screen, scores>>
                      [] OTHER ->
                           /\ outcome' = Outcome("Continued")
                           /\ UNCHANGED <<isPlaying, screen, prompt, scores>>

\* Variant: a cancelled prompt counts as a wrong answer.
puzzleVerdictCancelIsWrong(answer, tile) ==
    IF answer # NullAnswer /\ answerMatches(answer, tile) THEN "correct" ELSE "wrong"

\* The branch showMathPuzzle takes once prompt() has returned answer
\* (NullAnswer when the prompt was cancelled).
puzzleVerdict(answer, tile) ==
    IF answer # NullAnswer
    THEN IF answerMatches(answer, tile) THEN "correct" ELSE "wrong"
    ELSE "cancelled"

\* The rest of showMathPuzzle, after prompt() has returned.
showMathPuzzle(answer) ==
    LET tile == getTile(currentLevel, grid, prompt.x, prompt.y)
        verdict == puzzleVerdict(answer, tile)
    IN  /\ prompt' = Null
        /\ CASE verdict = "correct" ->
                  /\ grid' = [grid EXCEPT ![prompt.y + 1][prompt.x + 1].locked = FALSE]
                  /\ isPlaying' = TRUE
                  /\ outcome' = Outcome("Continued")
                  /\ UNCHANGED screen
             [] verdict = "wrong" ->
                  /\ isPlaying' = FALSE
                  /\ screen' = "failure"
                  /\ outcome' = Died("Wrong answer! Try again.")
                  /\ UNCHANGED grid
             [] OTHER ->
                  /\ isPlaying' = TRUE
                  /\ outcome' = Outcome("Continued")
                  /\ UNCHANGED <<grid, screen>>

\* Variant: an undo also puts the tiles back as loaded.
undoMoveReloadsTiles ==
    /\ player' = undo(player)
    /\ outcome' = IF undoOk(player) THEN Outcome("Undone")
                  ELSE Outcome("NothingToUndo")
    /\ grid' = loadLevel(LEVELS, [currentLevelIndex |-> currentLevelIndex,
                                  grid |-> grid], currentLevelIndex).grid
    /\ UNCHANGED <<isPlaying, screen, prompt, scores>>

\* undoMove()
undoMove ==
    /\ player' = undo(player)
    /\ outcome' = IF undoOk(player) THEN Outcome("Undone")
                  ELSE Outcome("NothingToUndo")
    /\ UNCHANGED <<grid, isPlaying, screen, prompt, scores>>

\* Variant: a restart resets the player and leaves the tiles as they are.
restartLevelKeepsTiles ==
    /\ screen' = "game"
    /\ grid' = grid
    /\ player' = reset(player)
    /\ isPlaying' = TRUE
    /\ outcome' = Outcome("Restarted")
    /\ UNCHANGED <<prompt, scores>>

\* restartLevel()
restartLevel ==
    LET loaded == loadLevel(LEVELS, [currentLevelIndex |-> currentLevelIndex,
                                     grid |-> grid], currentLevelIndex)
    IN  /\ screen' = "game"
        /\ grid' = loaded.grid
        /\ player' = reset(player)
        /\ isPlaying' = TRUE
        /\ outcome' = Outcome("Restarted")
        /\ UNCHANGED <<prompt, scores>>

\* showWelcomeScreen()
showWelcomeScreen ==
    /\ screen' = "welcome"
    /\ isPlaying' = FALSE
    /\ UNCHANGED <<grid, player, prompt, scores, outcome>>

\* ------------------------------------------------------------------------
\* Events: the listeners of InputHandler.setupListeners and Game.setupUI
\* ------------------------------------------------------------------------

\* No listener runs while prompt() is open; a button is clicked only on the
\* screen that is not hidden; handleKeyPress returns unless isPlaying.
PageIdle == prompt = Null

StartButton ==
    /\ PageIdle /\ screen = "welcome"
    /\ startGame(0)
    /\ outcome' = Outcome("None")
    /\ UNCHANGED <<LEVELS, prompt, scores>>

\* restartGame(): isPlaying = false, then startGame()
PlayAgainButton ==
    /\ PageIdle /\ screen = "success"
    /\ startGame(0)
    /\ outcome' = Outcome("None")
    /\ UNCHANGED <<LEVELS, prompt, scores>>

\* nextLevelBtn.onclick, shown by showSuccessScreen when hasNextLevel()
NextLevelButton ==
    /\ PageIdle /\ screen = "success"
    /\ hasNextLevel(LEVELS, currentLevelIndex)
    /\ startGame(currentLevelIndex + 1)
    /\ outcome' = Outcome("None")
    /\ UNCHANGED <<LEVELS, prompt, scores>>

\* (x,y) is the goal tile of the loaded grid.
targetIsGoal(x, y) ==
    LET tile == getTile(currentLevel, grid, x, y)
    IN  tile # Null /\ tile.type = GOAL

KeyMove(d) ==
    /\ PageIdle /\ isPlaying
    /\ player.moveCount < MaxMoves
    /\ targetIsGoal(player.x + d[1], player.y + d[2]) => Len(scores) < MaxScores
    /\ movePlayer(d[1], d[2])
    /\ UNCHANGED <<LEVELS, currentLevelIndex>>

AnswerPrompt(answer) ==
    /\ prompt # Null
    /\ showMathPuzzle(answer)
    /\ UNCHANGED <<LEVELS, currentLevelIndex, player, scores>>

\* Variant: the u key is not held back by isPlaying.
KeyUndoAlways ==
    /\ PageIdle /\ player # Null
    /\ undoMove
    /\ UNCHANGED <<LEVELS, currentLevelIndex>>

KeyUndo ==
    /\ PageIdle /\ isPlaying
    /\ undoMove
    /\ UNCHANGED <<LEVELS, currentLevelIndex>>

UndoButton ==
    /\ PageIdle /\ screen = "game"
    /\ undoMove
    /\ UNCHANGED <<LEVELS, currentLevelIndex>>

KeyRestart ==
    /\ PageIdle /\ isPlaying
    /\ restartLevel
    /\ UNCHANGED <<LEVELS, currentLevelIndex>>

RestartButton ==
    /\ PageIdle /\ screen = "game"
    /\ restartLevel
    /\ UNCHANGED <<LEVELS, currentLevelIndex>>

RetryButton ==
    /\ PageIdle /\ screen = "failure"
    /\ restartLevel
    /\ UNCHANGED <<LEVELS, currentLevelIndex>>

\* mainMenuButton, failureMainMenuButton, viewLeaderboardButton
MainMenuButton ==
    /\ PageIdle /\ screen \in {"game", "failure", "success"}
    /\ showWelcomeScreen
    /\ UNCHANGED <<LEVELS, currentLevelIndex>>

Next ==
    \/ StartButton
    \/ PlayAgainButton
    \/ NextLevelButton
    \/ \E d \in Dirs : KeyMove(d)
    \/ \E answer \in Answers \cup {NullAnswer} : AnswerPrompt(answer)
    \/ KeyUndo
    \/ UndoButton
    \/ KeyRestart
    \/ RestartButton
    \/ RetryButton
    \/ MainMenuButton

Spec == Init /\ [][Next]_vars

\* movePlayer(dx, dy) called with a request of any shape: the four unit
\* steps, no step, diagonal steps and steps of two cells.
Requests ==
    Dirs \cup {<<0, 0>>, <<1, 1>>, <<-1, 1>>, <<1, -1>>, <<2, 0>>, <<0, -2>>}

MoveRequest(r) ==
    /\ PageIdle /\ player # Null /\ isPlaying
    /\ player.moveCount < MaxRequestMoves
    /\ targetIsGoal(player.x + r[1], player.y + r[2]) => Len(scores) < MaxScores
    /\ movePlayer(r[1], r[2])
    /\ UNCHANGED <<LEVELS, currentLevelIndex>>

NextRequests ==
    \/ Next
    \/ \E r \in Requests : MoveRequest(r)

SpecRequests == Init /\ [][NextRequests]_vars

\* LeaderboardSystem on its own: addScore called with any name and time on
\* the list kept in localStorage, which is empty at first.
AddScore(name, time) ==
    /\ scores' = addScore(scores, name, time)
    /\ outcome' = [kind |-> "Scored", message |-> "",
                   rank |-> addScoreRank(scores, name, time)]
    /\ UNCHANGED <<LEVELS, currentLevelIndex, grid, player, isPlaying, screen,
                   prompt>>

NextLeaderboard == \E name \in ScoreNames, time \in ScoreTimes : AddScore(name, time)

InitLeaderboard == Init /\ LEVELS = ShippedLevels

SpecLeaderboard == InitLeaderboard /\ [][NextLeaderboard]_vars

\* The game on the corridor levels, for the star rating.
InitStars ==
    /\ LEVELS \in StarLevelArrays
    /\ currentLevelIndex = 0
    /\ grid = Null
    /\ player = Null
    /\ isPlaying = FALSE
    /\ screen = "welcome"
    /\ prompt = Null
    /\ scores = <<>>
    /\ outcome = Outcome("None")

\* A movement key on a corridor level, accepted up to MaxStarMoves moves.
StarMove(d) ==
    /\ PageIdle /\ isPlaying
    /\ player.moveCount < MaxStarMoves
    /\ targetIsGoal(player.x + d[1], player.y + d[2]) => Len(scores) < MaxScores
    /\ movePlayer(d[1], d[2])
    /\ UNCHANGED <<LEVELS, currentLevelIndex>>

NextStars ==
    \/ StartButton
    \/ \E d \in Dirs : StarMove(d)
    \/ KeyUndo
    \/ KeyRestart
    \/ PlayAgainButton
    \/ MainMenuButton

SpecStars == InitStars /\ [][NextStars]_vars

\* new Player(startX, startY, initialColor) takes any of the COLORS: the
\* game as startGame leaves it on the first level, with the player
\* constructed in any colour.
InitAnyColour ==
    /\ LEVELS \in ColourLevelArrays
    /\ currentLevelIndex = 0
    /\ grid = loadLevel(LEVELS, [currentLevelIndex |-> 0, grid |-> Null], 0).grid
    /\ \E initialColor \in COLORS :
           player = newPlayer(LEVELS[1].startPos.x, LEVELS[1].startPos.y,
                              initialColor)
    /\ isPlaying = TRUE
    /\ screen = "game"
    /\ prompt = Null
    /\ scores = <<>>
    /\ outcome = Outcome("None")

SpecAnyColour == InitAnyColour /\ [][Next]_vars

\* ------------------------------------------------------------------------
\* The shipped levels, played along a route
\* ------------------------------------------------------------------------

\* handleKeyPress: w and s set dy = -1 and dy = 1, a and d set dx = -1 and
\* dx = 1.
KeyW == <<0, -1>>
KeyS == <<0, 1>>
KeyA == <<-1, 0>>
KeyD == <<1, 0>>

\* The keys pressed on each shipped level.  Levels 1, 2 and 5: a shortest
\* way to the goal.  Levels 3 and 4: the way through the only passage of
\* the level, row 6, up to the yellow ground behind it.
Route1 ==
    <<
        KeyD, KeyD, KeyD, KeyD, KeyD, KeyD, KeyD, KeyD,
        KeyD, KeyD, KeyD, KeyD, KeyD >>

Route2 ==
    <<
        KeyD, KeyD, KeyD, KeyW, KeyD, KeyD, KeyD, KeyD,
        KeyD, KeyD, KeyD, KeyD, KeyS >>

Route3 ==
    <<
        KeyD, KeyD, KeyW, KeyW, KeyW, KeyD, KeyS, KeyD,
        KeyS, KeyS, KeyD, KeyD, KeyD, KeyD >>

Route4 ==
    <<
        KeyD, KeyD, KeyW, KeyW, KeyW, KeyD, KeyS, KeyS,
        KeyS, KeyD, KeyD, KeyD, KeyD, KeyD, KeyD, KeyD,
        KeyD >>

Route5 ==
    <<
        KeyD, KeyD, KeyW, KeyW, KeyW, KeyD, KeyD, KeyW,
        KeyD, KeyD, KeyS, KeyS, KeyS, KeyS, KeyD, KeyD,
        KeyD, KeyD, KeyD, KeyD, KeyW, KeyW, KeyW, KeyW,
        KeyD, KeyD, KeyD, KeyS, KeyS, KeyS, KeyS, KeyS,
        KeyS, KeyS, KeyD, KeyW, KeyW, KeyW, KeyD >>

Routes == <<Route1, Route2, Route3, Route4, Route5>>
Route == Routes[currentLevelIndex + 1]

\* The texts typed into a prompt on a route.
RouteAnswers == {<<"5">>, <<"8">>, <<"7">>, <<"1", "8">>}

\* The game as startGame(levelIndex) leaves it, for every index of the
\* shipped LEVELS.
InitShipped ==
    /\ LEVELS = ShippedLevels
    /\ currentLevelIndex \in 0..(Len(ShippedLevels) - 1)
    /\ grid = loadLevel(LEVELS, [currentLevelIndex |-> 0, grid |-> Null],
                        currentLevelIndex).grid
    /\ player = newPlayer(currentLevel.startPos.x, currentLevel.startPos.y, RED)
    /\ isPlaying = TRUE
    /\ screen = "game"
    /\ prompt = Null
    /\ scores = <<>>
    /\ outcome = Outcome("None")

\* The next key of the route is pressed.
RouteMove ==
    /\ PageIdle /\ isPlaying
    /\ player.moveCount < Len(Route)
    /\ movePlayer(Route[player.moveCount + 1][1], Route[player.moveCount + 1][2])
    /\ UNCHANGED <<LEVELS, currentLevelIndex>>

\* The answer of the gate's puzzle is typed into the prompt.
RouteAnswer ==
    /\ prompt # Null
    /\ \E answer \in RouteAnswers :
           /\ answerMatches(answer, getTile(currentLevel, grid, prompt.x, prompt.y))
           /\ showMathPuzzle(answer)
    /\ UNCHANGED <<LEVELS, currentLevelIndex, player, scores>>

NextShipped ==
    \/ RouteMove
    \/ RouteAnswer
    \/ NextLevelButton
    \/ RetryButton

SpecShipped == InitShipped /\ [][NextShipped]_vars

\* ------------------------------------------------------------------------
\* Properties
\* ------------------------------------------------------------------------

\* The tile the player stands on, and the tile a move in direction d targets.
playerTile == getTile(currentLevel, grid, player.x, player.y)
targetX(d) == player.x + d[1]
targetY(d) == player.y + d[2]
targetTile(d) == grid[targetY(d) + 1][targetX(d) + 1]

\* The target of a move in direction d lies inside the grid of the level.
TargetInGrid(d) ==
    /\ 0 <= targetX(d) /\ targetX(d) < currentLevel.width
    /\ 0 <= targetY(d) /\ targetY(d) < currentLevel.height

\* A move in direction d is blocked: out of the grid, or onto an obstacle.
TargetBlocked(d) == ~TargetInGrid(d) \/ targetTile(d).type = OBSTACLE

\* A move in direction d lands on a tile of this type.
TargetIs(d, type) == TargetInGrid(d) /\ targetTile(d).type = type

C3_BlockedMoveChangesNothing ==
    [][\A d \in Dirs :
          (KeyMove(d) /\ TargetBlocked(d)) =>
              /\ outcome'.kind = "Blocked"
              /\ UNCHANGED <<player, grid, isPlaying, screen, prompt, scores,
                             currentLevelIndex, LEVELS>>]_vars

\* C3 witness: a move was blocked, by the edge of the grid or an obstacle.
C3_Witness ==
    /\ player # Null
    /\ outcome.kind = "Blocked"
    /\ \E d \in Dirs : TargetBlocked(d)

\* The cells of the loaded level, and the tile of a cell in a grid.
Cells == (0..(currentLevel.width - 1)) \X (0..(currentLevel.height - 1))
tileAt(g, c) == g[c[2] + 1][c[1] + 1]
CellsOfType(type) == {c \in Cells : tileAt(grid, c).type = type}

\* A step that loads a level: a start, a restart or a retry.
LevelLoaded ==
    \/ StartButton \/ PlayAgainButton \/ NextLevelButton
    \/ KeyRestart \/ RestartButton \/ RetryButton

\* A step that is an undo.
UndoStep == KeyUndo \/ UndoButton

\* The answers that can come back from the prompt, a cancel included.
PromptResults == Answers \cup {NullAnswer}

\* C4: every move that is not blocked pushes exactly one snapshot (the
\* position, colour and keys from before the move) onto the history, puts
\* the player on the target and adds 1 to the move count, whatever the tile
\* then does to the player; the answer to a gate's prompt, fatal or not,
\* takes nothing of this back.
C4_MoveCommittedBeforeResolution ==
    [][/\ \A d \in Dirs :
            (KeyMove(d) /\ ~TargetBlocked(d)) =>
                /\ player'.moveHistory =
                       Append(player.moveHistory,
                              [x |-> player.x, y |-> player.y,
                               color |-> player.color, keys |-> player.keys])
                /\ player'.x = targetX(d)
                /\ player'.y = targetY(d)
                /\ player'.moveCount = player.moveCount + 1
       /\ \A a \in PromptResults :
            AnswerPrompt(a) =>
                /\ player'.moveHistory = player.moveHistory
                /\ player'.moveCount = player.moveCount
                /\ player'.x = player.x /\ player'.y = player.y]_vars

\* C4 witness: the player died on arrival, and the fatal step is in the
\* history and in the move count.
C4_Witness ==
    /\ player # Null
    /\ outcome.kind = "Died"
    /\ player.moveCount >= 2
    /\ Len(player.moveHistory) = player.moveCount
    /\ LET last == player.moveHistory[Len(player.moveHistory)]
       IN  <<last.x, last.y>> # <<player.x, player.y>>

\* C5: undo is a left inverse of a move: after a move with outcome
\* Continued an undo is accepted and puts position, colour, key count and
\* move count back to what they were before the move.
C5_UndoRestoresPreMoveState ==
    [][\A d \in Dirs :
          (KeyMove(d) /\ outcome'.kind = "Continued") =>
              /\ isPlaying' /\ prompt' = Null
              /\ undoOk(player')
              /\ undo(player').x = player.x
              /\ undo(player').y = player.y
              /\ undo(player').color = player.color
              /\ undo(player').keys = player.keys
              /\ undo(player').moveCount = player.moveCount]_vars

\* C5 witness: an undo has given back the key that opened a door.
C5_Witness ==
    /\ player # Null
    /\ outcome.kind = "Undone"
    /\ player.keys = 1
    /\ playerTile.type = KEY
    /\ \E c \in CellsOfType(DOOR) : ~tileAt(grid, c).locked

\* C6: between two loads of the level the first arrival on a Fragile tile
\* yields Continued and marks it used, every later arrival yields Died, and
\* nothing but an arrival marks the tile and nothing but a load unmarks it
\* (an undo in particular leaves it marked).
C6_FragileOnce ==
    [][/\ \A d \in Dirs :
            (KeyMove(d) /\ TargetIs(d, FRAGILE)) =>
                IF targetTile(d).used
                THEN outcome'.kind = "Died"
                ELSE /\ outcome'.kind = "Continued"
                     /\ tileAt(grid', <<targetX(d), targetY(d)>>).used
       /\ LevelLoaded =>
            \A c \in (0..(currentLevel'.width - 1)) \X (0..(currentLevel'.height - 1)) :
                tileAt(grid', c).type = FRAGILE => ~tileAt(grid', c).used
       /\ (player # Null /\ ~LevelLoaded) =>
            \A c \in CellsOfType(FRAGILE) :
                /\ tileAt(grid, c).used => tileAt(grid', c).used
                /\ (~tileAt(grid, c).used /\ tileAt(grid', c).used) =>
                       /\ <<player'.x, player'.y>> = c
                       /\ \E d \in Dirs : KeyMove(d)]_vars

\* C6 witness: the player died on a used Fragile tile with its first move;
\* the arrival that used the tile was undone.
C6_Witness ==
    /\ player # Null
    /\ outcome.kind = "Died"
    /\ playerTile.type = FRAGILE
    /\ playerTile.used
    /\ player.moveCount = 1

\* C7: on a locked Door without a key the player dies and the door stays
\* locked; with a key the key count drops by one, the door is unlocked and
\* play continues; on an unlocked Door play continues and no key is used.
C7_DoorResolution ==
    [][\A d \in Dirs :
          (KeyMove(d) /\ TargetIs(d, DOOR)) =>
              LET after == tileAt(grid', <<targetX(d), targetY(d)>>)
              IN  CASE targetTile(d).locked /\ player.keys = 0 ->
                         /\ outcome'.kind = "Died"
                         /\ after.locked
                         /\ player'.keys = 0
                    [] targetTile(d).locked /\ player.keys >= 1 ->
                         /\ outcome'.kind = "Continued"
                         /\ ~after.locked
                         /\ player'.keys = player.keys - 1
                    [] OTHER ->
                         /\ outcome'.kind = "Continued"
                         /\ ~after.locked
                         /\ player'.keys = player.keys]_vars

\* C7 witness: the player walked onto a door that was already unlocked,
\* holding a key, and still holds it.
C7_Witness ==
    /\ player # Null
    /\ outcome.kind = "Continued"
    /\ playerTile.type = DOOR
    /\ ~playerTile.locked
    /\ player.keys >= 1

\* The tiles of a type whose flag says they were acted on.
DoorsUnlocked == {c \in CellsOfType(DOOR) : ~tileAt(grid, c).locked}
KeysCollected == {c \in CellsOfType(KEY) : tileAt(grid, c).collected}

\* C8: one key opens one door: there are never more unlocked Door tiles
\* than collected Key tiles.
C8_UnlockedDoorsAtMostCollectedKeys ==
    player # Null => Cardinality(DoorsUnlocked) <= Cardinality(KeysCollected)

\* The number a typed text stands for, read as a numeral is read: spaces
\* around it, an optional sign, decimal digits, and at most a fraction of
\* zeros.  StandsFor(text, n): the text is such a numeral, of value n.
IsDigit(c) == c \in {"0", "1", "2", "3", "4", "5", "6", "7", "8", "9"}

RECURSIVE TrimLeft(_)
TrimLeft(s) == IF Len(s) > 0 /\ s[1] = " " THEN TrimLeft(Tail(s)) ELSE s

RECURSIVE TrimRight(_)
TrimRight(s) ==
    IF Len(s) > 0 /\ s[Len(s)] = " " THEN TrimRight(SubSeq(s, 1, Len(s) - 1)) ELSE s

RECURSIVE DecimalValue(_)
DecimalValue(s) ==
    IF Len(s) = 0 THEN 0
    ELSE 10 * DecimalValue(SubSeq(s, 1, Len(s) - 1))
           + (CHOOSE v \in 0..9 : digitValue(s[Len(s)]) = v)

StandsFor(text, n) ==
    LET t == TrimRight(TrimLeft(text))
        signed == Len(t) > 0 /\ t[1] \in {"-", "+"}
        body == IF signed THEN Tail(t) ELSE t
        dots == {i \in 1..Len(body) : body[i] = "."}
        cut == IF dots = {} THEN Len(body) + 1
               ELSE CHOOSE i \in dots : \A j \in dots : i <= j
        whole == SubSeq(body, 1, cut - 1)
        fraction == SubSeq(body, cut + 1, Len(body))
    IN  /\ Len(whole) > 0
        /\ \A i \in 1..Len(whole) : IsDigit(whole[i])
        /\ \A i \in 1..Len(fraction) : fraction[i] = "0"
        /\ n = IF Len(t) > 0 /\ t[1] = "-" THEN 0 - DecimalValue(whole)
               ELSE DecimalValue(whole)

\* C9: arriving on a locked MathGate stops move input and opens the prompt;
\* an answer equal to the gate's expected answer unlocks the gate and play
\* goes on, any other answer yields Died with the gate still locked; on an
\* unlocked MathGate the move yields Continued and nothing is asked.
C9_GateOpensOnlyForTheExpectedAnswer ==
    [][/\ \A d \in Dirs :
            (KeyMove(d) /\ TargetIs(d, MATH_GATE)) =>
                IF targetTile(d).locked
                THEN /\ outcome'.kind = "Resolving"
                     /\ ~isPlaying'
                     /\ prompt' = [x |-> targetX(d), y |-> targetY(d)]
                ELSE /\ outcome'.kind = "Continued"
                     /\ isPlaying'
                     /\ prompt' = Null
       /\ prompt # Null => \E a \in PromptResults : AnswerPrompt(a)
       /\ \A a \in Answers :
            AnswerPrompt(a) =>
                LET gate == tileAt(grid, <<prompt.x, prompt.y>>)
                    after == tileAt(grid', <<prompt.x, prompt.y>>)
                IN  IF "answer" \in DOMAIN gate /\ StandsFor(a, gate.answer)
                    THEN /\ ~after.locked
                         /\ isPlaying'
                         /\ outcome'.kind = "Continued"
                    ELSE /\ after.locked
                         /\ ~isPlaying'
                         /\ outcome'.kind = "Died"]_vars

C11_NoLockedGateWhilePlaying ==
    (player # Null /\ isPlaying) =>
        ~(tileAt(grid, <<player.x, player.y>>).type = MATH_GATE
            /\ tileAt(grid, <<player.x, player.y>>).locked)

\* The tiles of grid g of level lvl carry the flags of a freshly parsed
\* level: no Fragile tile used, no Key collected, every Door and MathGate
\* locked.
FreshTiles(lvl, g) ==
    \A c \in (0..(lvl.width - 1)) \X (0..(lvl.height - 1)) :
        LET tile == tileAt(g, c)
        IN  /\ tile.type = FRAGILE => ~tile.used
            /\ tile.type = KEY => ~tile.collected
            /\ tile.type \in {DOOR, MATH_GATE} => tile.locked

\* The player p is as at the start of level lvl: on the start coordinate,
\* red, without keys, moves or history.
FreshActor(lvl, p) ==
    /\ p.x = lvl.startPos.x /\ p.y = lvl.startPos.y
    /\ p.color = RED
    /\ p.keys = 0
    /\ p.moveCount = 0
    /\ p.moveHistory = <<>>

C13_RestartGivesInitialState ==
    /\ [][(KeyRestart \/ RestartButton \/ RetryButton) =>
             /\ currentLevelIndex' = currentLevelIndex
             /\ FreshTiles(currentLevel, grid')
             /\ \A c \in Cells : tileAt(grid', c).type = tileAt(grid, c).type
             /\ FreshActor(currentLevel, player')
             /\ isPlaying' /\ screen' = "game" /\ prompt' = Null]_vars
    /\ [](player # Null =>
             /\ FreshActor(currentLevel, reset(player))
             /\ FreshTiles(currentLevel,
                    loadLevel(LEVELS, [currentLevelIndex |-> currentLevelIndex,
                                       grid |-> grid], currentLevelIndex).grid))

\* C13 witness: a restart has just put the level back to its initial state.
C13_Witness ==
    /\ player # Null
    /\ outcome.kind = "Restarted"
    /\ isPlaying
    /\ FreshActor(currentLevel, player)
    /\ FreshTiles(currentLevel, grid)
    /\ Len(scores) > 0

LethalCell(c, color) ==
    LET tile == tileAt(grid, c)
    IN  \/ tile.type = EMPTY
        \/ tile.type = GROUND /\ tile.color # NEUTRAL /\ tile.color # color
        \/ tile.type = DOOR /\ tile.locked

StandableCell(x, y) ==
    /\ <<x, y>> \in Cells
    /\ tileAt(grid, <<x, y>>).type # OBSTACLE

\* C16: in every state of a level session the player's coordinate is inside
\* the grid and not an obstacle, and so is every snapshot of the undo
\* history.
C16_PositionsInsideGridOffObstacles ==
    player # Null =>
        /\ StandableCell(player.x, player.y)
        /\ \A i \in 1..Len(player.moveHistory) :
               StandableCell(player.moveHistory[i].x, player.moveHistory[i].y)

\* C16 witness: with two snapshots in the history, a move against the edge
\* of the grid or an obstacle was refused.
C16_Witness ==
    /\ player # Null
    /\ isPlaying
    /\ outcome.kind = "Blocked"
    /\ Len(player.moveHistory) >= 2
    /\ \E d \in Dirs : TargetBlocked(d)

\* C17: isWalkable(x,y) holds exactly for the cells of the grid that are no
\* obstacle, and getTile gives no tile exactly outside the grid.  A pit is
\* walkable: a move onto a pit puts the player on the pit and yields Died;
\* a move onto an obstacle leaves the player where it is.
C17_WalkableIsInsideAndNoObstacle ==
    /\ [](player # Null =>
            \A x \in -1..currentLevel.width, y \in -1..currentLevel.height :
                /\ isWalkable(currentLevel, grid, x, y) <=> StandableCell(x, y)
                /\ (getTile(currentLevel, grid, x, y) = Null) <=> (<<x, y>> \notin Cells)
                /\ <<x, y>> \in Cells =>
                       getTile(currentLevel, grid, x, y) = tileAt(grid, <<x, y>>))
    /\ [][\A d \in Dirs :
             /\ (KeyMove(d) /\ TargetIs(d, EMPTY)) =>
                    /\ player'.x = targetX(d) /\ player'.y = targetY(d)
                    /\ outcome'.kind = "Died"
             /\ (KeyMove(d) /\ TargetIs(d, OBSTACLE)) =>
                    /\ player'.x = player.x /\ player'.y = player.y
                    /\ outcome'.kind = "Blocked"]_vars

\* C17 witness: the player has stepped onto a pit and died there.
C17_Witness ==
    /\ player # Null
    /\ outcome.kind = "Died"
    /\ ~isPlaying
    /\ tileAt(grid, <<player.x, player.y>>).type = EMPTY
    /\ \E d \in Dirs : TargetIs(d, OBSTACLE)

\* C18: the first arrival on a Key tile marks it collected and adds exactly
\* one key, with outcome Continued; every later arrival before the level
\* is loaded again leaves the key count as it is, with outcome Continued;
\* a collected tile stays collected until the level is loaded again.
C18_KeyCollectedOncePerTile ==
    [][/\ \A d \in Dirs :
            (KeyMove(d) /\ TargetIs(d, KEY)) =>
                /\ outcome'.kind = "Continued"
                /\ tileAt(grid', <<targetX(d), targetY(d)>>).collected
                /\ player'.keys = IF targetTile(d).collected
                                  THEN player.keys ELSE player.keys + 1
       /\ (player # Null /\ ~LevelLoaded) =>
            \A c \in CellsOfType(KEY) :
                tileAt(grid, c).collected => tileAt(grid', c).collected]_vars

\* C18 witness: the player is back on a Key tile it had collected before,
\* and has no key.
C18_Witness ==
    /\ player # Null
    /\ outcome.kind = "Continued"
    /\ playerTile.type = KEY
    /\ playerTile.collected
    /\ player.keys = 0

\* C19: an arrival on a ColorChanger yields Continued and gives the player
\* the colour of the tile, whatever its colour was; an arrival on a tile of
\* any other kind, and the answer to a puzzle, leave the colour as it is.
C19_OnlyColorChangersChangeColour ==
    [][/\ \A d \in Dirs :
            /\ (KeyMove(d) /\ TargetIs(d, COLOR_CHANGE)) =>
                   /\ outcome'.kind = "Continued"
                   /\ player'.color = targetTile(d).color
            /\ (KeyMove(d) /\ ~TargetIs(d, COLOR_CHANGE)) =>
                   player'.color = player.color
       /\ \A a \in PromptResults :
            AnswerPrompt(a) => player'.color = player.color]_vars

\* C19 witness: the player stands on a ColorChanger in the tile's colour,
\* having arrived in another colour.
C19_Witness ==
    /\ player # Null
    /\ outcome.kind = "Continued"
    /\ playerTile.type = COLOR_CHANGE
    /\ player.color = playerTile.color
    /\ player.moveHistory # <<>>
    /\ player.moveHistory[Len(player.moveHistory)].color # player.color

\* C20: an arrival on the Goal yields Completed whatever the player's
\* colour and key count, and nothing but an arrival on the Goal yields
\* Completed.
C20_CompletedExactlyOnGoal ==
    [][/\ \A d \in Dirs :
            (KeyMove(d) /\ TargetIs(d, GOAL)) =>
                /\ outcome'.kind = "Completed"
                /\ ~isPlaying'
                /\ screen' = "success"
       /\ (outcome'.kind = "Completed" /\ outcome.kind # "Completed") =>
            \E d \in Dirs : KeyMove(d) /\ TargetIs(d, GOAL)]_vars

\* C20 witness: the level was completed with a key in hand.
C20_Witness ==
    /\ player # Null
    /\ outcome.kind = "Completed"
    /\ screen = "success"
    /\ tileAt(grid, <<player.x, player.y>>).type = GOAL
    /\ player.keys >= 1

ChangerScenario ==
    /\ player # Null
    /\ currentLevel.width = 3 /\ currentLevel.height = 3
    /\ tileAt(grid, <<0, 0>>).type = START
    /\ tileAt(grid, <<1, 0>>).type = COLOR_CHANGE
    /\ tileAt(grid, <<2, 0>>).type = GOAL
    /\ player.initialColor = NEUTRAL

\* In that scenario the player is as constructed: at (0,0), neutral, without
\* keys, moves or history.
AtNeutralStart ==
    /\ ChangerScenario
    /\ isPlaying
    /\ player.x = 0 /\ player.y = 0
    /\ player.color = NEUTRAL
    /\ player.keys = 0
    /\ player.moveCount = 0
    /\ player.moveHistory = <<>>

\* In that scenario the player has made the first move right and nothing
\* else.
AfterFirstMoveRight ==
    /\ ChangerScenario
    /\ isPlaying
    /\ player.x = 1 /\ player.y = 0
    /\ player.moveCount = 1
    /\ Len(player.moveHistory) = 1

\* C22: on the 3x3 level S, ColorChanger(A), G a player starting neutral at
\* (0,0) gets Continued and colour A from the first move right and
\* Completed from the second; an undo after the first move puts it back at
\* (0,0), neutral.
C22_ChangerScenario ==
    [][/\ (AtNeutralStart /\ KeyMove(<<1, 0>>)) =>
            /\ outcome'.kind = "Continued"
            /\ player'.x = 1 /\ player'.y = 0
            /\ player'.color = tileAt(grid, <<1, 0>>).color
            /\ player'.color # NEUTRAL
       /\ (AfterFirstMoveRight /\ KeyMove(<<1, 0>>)) =>
            /\ outcome'.kind = "Completed"
            /\ player'.x = 2 /\ player'.y = 0
       /\ (AfterFirstMoveRight /\ (KeyUndo \/ UndoButton)) =>
            /\ outcome'.kind = "Undone"
            /\ player'.x = 0 /\ player'.y = 0
            /\ player'.color = NEUTRAL
            /\ player'.moveCount = 0]_vars

\* C22 witness: the neutral player has gone right twice and completed the
\* level in the colour of the changer.
C22_Witness ==
    /\ ChangerScenario
    /\ outcome.kind = "Completed"
    /\ player.x = 2 /\ player.y = 0
    /\ player.moveCount = 2
    /\ player.moveHistory[1].color = NEUTRAL
    /\ player.moveHistory[2].color = player.color
    /\ player.color = YELLOW

\* C23: undo on an empty history returns false and changes nothing:
\* position, colour, key count and move count stay as they were.
C23_UndoOnEmptyHistoryIsNoOp ==
    /\ []((player # Null /\ player.moveHistory = <<>>) =>
            /\ ~undoOk(player)
            /\ undo(player) = player)
    /\ [][((KeyUndo \/ UndoButton) /\ player.moveHistory = <<>>) =>
             /\ outcome'.kind = "NothingToUndo"
             /\ player'.x = player.x /\ player'.y = player.y
             /\ player'.color = player.color
             /\ player'.keys = player.keys
             /\ player'.moveCount = player.moveCount
             /\ player'.moveHistory = <<>>
             /\ UNCHANGED <<grid, isPlaying, screen>>]_vars

\* C23 witness: an undo found the history empty, after an earlier undo had
\* taken back the collection of a key.
C23_Witness ==
    /\ player # Null
    /\ outcome.kind = "NothingToUndo"
    /\ player.moveHistory = <<>>
    /\ player.moveCount = 0
    /\ KeysCollected # {}

\* A request is a single step in one of the four directions.
UnitStep(r) ==
    \/ r[1] = 0 /\ r[2] \in {-1, 1}
    \/ r[2] = 0 /\ r[1] \in {-1, 1}

StarsFor(m, t) ==
    CASE m <= t -> 3
      [] t < m /\ 10 * m <= 13 * t -> 2
      [] OTHER -> 1

\* C25: for every move count m >= 0 and target t the star rating is 3 when
\* m <= t, 2 when t < m <= 1.3 * t and 1 otherwise, both boundaries
\* included: in every state the rating of the moves made so far is that
\* one, and so is the rating shown at every completion.
C25_StarThresholds ==
    /\ [](player # Null =>
            calculateStars(currentLevel, player.moveCount)
                = StarsFor(player.moveCount, currentLevel.targetMoves))
    /\ [][\A d \in Dirs :
             (StarMove(d) /\ outcome'.kind = "Completed") =>
                 outcome'.stars = StarsFor(player.moveCount + 1,
                                           currentLevel.targetMoves)]_vars

\* C25 witness: a level with target 10 was completed in 13 moves, which is
\* 1.3 times the target, for 2 stars.
C25_Witness ==
    /\ player # Null
    /\ outcome.kind = "Completed"
    /\ currentLevel.targetMoves = 10
    /\ player.moveCount = 13
    /\ outcome.stars = 2

\* ceil(1.3 * t) and floor(1.3 * t), for a whole number t >= 0.
CeilOfTarget13(t) == (13 * t + 9) \div 10
FloorOfTarget13(t) == (13 * t) \div 10

\* C26 as stated: for every target t >= 1 the rating of t moves is 3, of
\* ceil(1.3 * t) moves 2 and of ceil(1.3 * t) + 1 moves 1, and the rating
\* never goes up with the move count.
C26_RatingAtCeiling ==
    player # Null =>
        LET t == currentLevel.targetMoves
        IN  /\ calculateStars(currentLevel, t) = 3
            /\ calculateStars(currentLevel, CeilOfTarget13(t)) = 2
            /\ calculateStars(currentLevel, CeilOfTarget13(t) + 1) = 1
            /\ calculateStars(currentLevel, player.moveCount + 1)
                   <= calculateStars(currentLevel, player.moveCount)

\* C26 amended: the last move count that rates 2 is floor(1.3 * t), not
\* ceil(1.3 * t).  For every target t >= 1 the rating of t moves is 3, of
\* floor(1.3 * t) moves 2 if that is more than t moves (t >= 4) and 3 if
\* not, and of floor(1.3 * t) + 1 moves 1; the rating of ceil(1.3 * t)
\* moves is 2 only when 1.3 * t is a whole number; the rating never goes
\* up with the move count.
C26_RatingAtFloor ==
    /\ [](player # Null =>
            LET t == currentLevel.targetMoves
                m == player.moveCount
            IN  /\ calculateStars(currentLevel, t) = 3
                /\ calculateStars(currentLevel, FloorOfTarget13(t))
                       = IF FloorOfTarget13(t) > t THEN 2 ELSE 3
                /\ calculateStars(currentLevel, FloorOfTarget13(t) + 1) = 1
                /\ calculateStars(currentLevel, CeilOfTarget13(t) + 1) = 1
                /\ (calculateStars(currentLevel, CeilOfTarget13(t)) = 2)
                       <=> (CeilOfTarget13(t) = FloorOfTarget13(t))
                /\ calculateStars(currentLevel, m + 1)
                       <= calculateStars(currentLevel, m))
    /\ [][\A d \in Dirs :
             (StarMove(d) /\ outcome'.kind = "Completed") =>
                 LET t == currentLevel.targetMoves
                     m == player'.moveCount
                 IN  /\ m = t => outcome'.stars = 3
                     /\ (m = FloorOfTarget13(t) /\ m > t) => outcome'.stars = 2
                     /\ m = FloorOfTarget13(t) + 1 => outcome'.stars = 1]_vars

\* C26 witness: a level with target 4 was completed in 5 = floor(5.2)
\* moves for 2 stars; ceil(5.2) = 6 moves rate 1 star.
C26_Witness ==
    /\ player # Null
    /\ outcome.kind = "Completed"
    /\ currentLevel.targetMoves = 4
    /\ player.moveCount = 5
    /\ outcome.stars = 2
    /\ calculateStars(currentLevel, 6) = 1

\* The entries of the puzzle-gate metadata of a descriptor (none when the
\* descriptor has no mathGates list).
GateEntries(levelConfig) ==
    IF "mathGates" \in DOMAIN levelConfig
    THEN {levelConfig.mathGates[i] : i \in 1..Len(levelConfig.mathGates)}
    ELSE {}

\* The entry addresses a MathGate token of the descriptor's grid.
AddressesMathGate(levelConfig, gate) ==
    /\ 0 <= gate.x /\ gate.x < levelConfig.width
    /\ 0 <= gate.y /\ gate.y < levelConfig.height
    /\ levelConfig.grid[gate.y + 1][gate.x + 1] = "MG"

\* C27 as stated: loading a level fails when an entry of its puzzle-gate
\* metadata does not address a MathGate tile, so that the level in play
\* never has such an entry.
C27_BadGateMetadataFailsTheLoad ==
    player # Null =>
        \A gate \in GateEntries(currentLevel) :
            AddressesMathGate(currentLevel, gate)

\* C28: level iteration is bounds-checked.  loadLevel with an index outside
\* 0..Len(LEVELS)-1 returns false and leaves the index and the grid as they
\* are, and with an index inside it loads that level; goToNextLevel returns
\* false and changes nothing on the last level and loads exactly the next
\* level otherwise; the Next Level button loads exactly the next level; the
\* current level index is always a valid index.
C28_LevelIterationIsBoundsChecked ==
    /\ [](currentLevelIndex \in 0..(Len(LEVELS) - 1))
    /\ [](player # Null =>
            LET lm == [currentLevelIndex |-> currentLevelIndex, grid |-> grid]
                next == goToNextLevel(LEVELS, lm)
            IN  /\ \A i \in -2..(Len(LEVELS) + 1) :
                       LET loaded == loadLevel(LEVELS, lm, i)
                       IN  IF i \in 0..(Len(LEVELS) - 1)
                           THEN /\ loaded.ok
                                /\ loaded.currentLevelIndex = i
                                /\ FreshTiles(LEVELS[i + 1], loaded.grid)
                           ELSE /\ ~loaded.ok
                                /\ loaded.currentLevelIndex = currentLevelIndex
                                /\ loaded.grid = grid
                /\ IF currentLevelIndex = Len(LEVELS) - 1
                   THEN /\ ~next.ok
                        /\ next.currentLevelIndex = currentLevelIndex
                        /\ next.grid = grid
                   ELSE /\ next.ok
                        /\ next.currentLevelIndex = currentLevelIndex + 1
                        /\ Len(next.grid) = LEVELS[currentLevelIndex + 2].height
                        /\ FreshTiles(LEVELS[currentLevelIndex + 2], next.grid))
    /\ [][NextLevelButton =>
             /\ currentLevelIndex' = currentLevelIndex + 1
             /\ currentLevelIndex' < Len(LEVELS)
             /\ Len(grid') = currentLevel'.height]_vars

\* C28 witness: the Next Level button has led to the last level of the
\* array, where goToNextLevel returns false.
C28_Witness ==
    /\ player # Null
    /\ isPlaying
    /\ currentLevelIndex > 0
    /\ currentLevelIndex = Len(LEVELS) - 1
    /\ ~hasNextLevel(LEVELS, currentLevelIndex)

\* The list is sorted by ascending time.
SortedByTime(list) ==
    \A i, j \in 1..Len(list) : i < j => list[i].time <= list[j].time

\* The sorted list with the entry e put behind every entry whose time is
\* not above e's.
WithEntry(list, e) ==
    LET before == Cardinality({i \in 1..Len(list) : list[i].time <= e.time})
    IN  [i \in 1..(Len(list) + 1) |->
            IF i <= before THEN list[i]
            ELSE IF i = before + 1 THEN e
            ELSE list[i - 1]]

C30_StartTileIsNeutralGround ==
    [][\A d \in Dirs :
          (KeyMove(d) /\ TargetIs(d, START)) =>
              /\ outcome'.kind = "Continued"
              /\ isPlaying'
              /\ player'.x = targetX(d) /\ player'.y = targetY(d)
              /\ player'.color = player.color
              /\ player'.keys = player.keys
              /\ grid' = grid]_vars

\* C30 witness: the player is back on the Start tile, in another colour
\* than the one it started with.
C30_Witness ==
    /\ player # Null
    /\ outcome.kind = "Continued"
    /\ isPlaying
    /\ tileAt(grid, <<player.x, player.y>>).type = START
    /\ player.moveCount >= 2
    /\ player.color # player.initialColor
    /\ player.initialColor = NEUTRAL

\* C34: the move count is the length of the undo history in every state:
\* both grow by one on a move that is not blocked, shrink by one on an
\* undo that finds a snapshot, and are zero after a reset or a level load;
\* the move count goes down by an undo, a reset or a load only.
C34_MoveCountIsHistoryLength ==
    /\ [](player # Null => player.moveCount = Len(player.moveHistory))
    /\ [][player # Null =>
             /\ \A d \in Dirs :
                    (KeyMove(d) /\ ~TargetBlocked(d)) =>
                        /\ player'.moveCount = player.moveCount + 1
                        /\ Len(player'.moveHistory) = Len(player.moveHistory) + 1
             /\ ((KeyUndo \/ UndoButton) /\ player.moveHistory # <<>>) =>
                    /\ player'.moveCount = player.moveCount - 1
                    /\ Len(player'.moveHistory) = Len(player.moveHistory) - 1
                    /\ player.moveCount >= 1
             /\ LevelLoaded =>
                    player'.moveCount = 0 /\ player'.moveHistory = <<>>
             /\ player'.moveCount < player.moveCount =>
                    KeyUndo \/ UndoButton \/ LevelLoaded]_vars

\* C34 witness: after three moves and an undo the count and the history
\* both stand at two.
C34_Witness ==
    /\ player # Null
    /\ outcome.kind = "Undone"
    /\ player.moveCount = 2
    /\ Len(player.moveHistory) = 2

\* C35: an undo changes the player only: no Fragile, Key, Door or MathGate
\* flag changes, so the tile effect of the undone move stays.
C35_UndoLeavesTilesAlone ==
    [][(KeyUndo \/ UndoButton) =>
          /\ grid' = grid
          /\ \A c \in Cells : tileAt(grid', c) = tileAt(grid, c)
          /\ UNCHANGED <<isPlaying, screen, prompt, scores, currentLevelIndex>>]_vars

\* C35 witness: the move onto a MathGate was undone after the right answer:
\* the player is back on the start tile and the gate is open.
C35_Witness ==
    /\ player # Null
    /\ outcome.kind = "Undone"
    /\ tileAt(grid, <<player.x, player.y>>).type = START
    /\ \E c \in CellsOfType(MATH_GATE) : ~tileAt(grid, c).locked

\* C36: between two loads of the level the tile flags go one way only: a
\* Fragile tile that is used stays used, a Key that is collected stays
\* collected, a Door or MathGate that is unlocked stays unlocked, whatever
\* moves, answers and undos follow.
C36_TileFlagsGoOneWay ==
    [][(player # Null /\ ~LevelLoaded) =>
          \A c \in Cells :
              LET before == tileAt(grid, c)
                  after == tileAt(grid', c)
              IN  /\ after.type = before.type
                  /\ (before.type = FRAGILE /\ before.used) => after.used
                  /\ (before.type = KEY /\ before.collected) => after.collected
                  /\ (before.type \in {DOOR, MATH_GATE} /\ ~before.locked) =>
                         ~after.locked]_vars

\* C36 witness: the player has come back onto a door it had opened before,
\* and the door is open.
C36_Witness ==
    /\ player # Null
    /\ outcome.kind = "Continued"
    /\ playerTile.type = DOOR
    /\ ~playerTile.locked
    /\ \E i \in 1..Len(player.moveHistory) :
           /\ player.moveHistory[i].x = player.x
           /\ player.moveHistory[i].y = player.y

\* C37: in every state, after any moves, undos and restarts, the player's
\* key count is at least 0 and at most the number of Key tiles that are
\* marked collected.
C37_KeysAtMostCollectedTiles ==
    player # Null =>
        /\ player.keys >= 0
        /\ player.keys <= Cardinality({c \in Cells :
                                          /\ tileAt(grid, c).type = KEY
                                          /\ tileAt(grid, c).collected})
        /\ \A i \in 1..Len(player.moveHistory) :
               player.moveHistory[i].keys >= 0

\* C37 witness: the collection of a key was undone: the tile is marked
\* collected and the player has no key.
C37_Witness ==
    /\ player # Null
    /\ isPlaying
    /\ outcome.kind = "Undone"
    /\ player.keys = 0
    /\ KeysCollected # {}
    /\ DoorsUnlocked = {}

\* C38: in a game started by startGame the player's colour is red, blue or
\* yellow and never neutral: the player starts red, every colour changer
\* has one of the three colours, and the snapshots that undo restores hold
\* such colours only.
C38_PlayerColourNeverNeutral ==
    player # Null =>
        /\ player.color \in {RED, BLUE, YELLOW}
        /\ player.initialColor = RED
        /\ \A i \in 1..Len(player.moveHistory) :
               player.moveHistory[i].color \in {RED, BLUE, YELLOW}
        /\ \A c \in CellsOfType(COLOR_CHANGE) :
               tileAt(grid, c).color \in {RED, BLUE, YELLOW}
        /\ \A token \in {"CR", "CB", "CY", "CN", "C", "N", "S", "MG", "K", "D", "F"} :
               parseTile(token).type = COLOR_CHANGE =>
                   parseTile(token).color \in {RED, BLUE, YELLOW}

\* C38 witness: an undo has put the player back on a colour changer, in the
\* changer's colour, which is not the colour it started with.
C38_Witness ==
    /\ player # Null
    /\ outcome.kind = "Undone"
    /\ playerTile.type = COLOR_CHANGE
    /\ player.color = playerTile.color
    /\ player.color # player.initialColor

\* C39: a MathGate to which loadLevel bound no puzzle is opened by no
\* answer: every answer that is typed yields Died and leaves the gate
\* locked.
C39_GateWithoutPuzzleNeverOpens ==
    [][\A a \in Answers :
          (AnswerPrompt(a) /\ "answer" \notin DOMAIN tileAt(grid, <<prompt.x, prompt.y>>)) =>
              /\ outcome'.kind = "Died"
              /\ ~isPlaying'
              /\ tileAt(grid', <<prompt.x, prompt.y>>).type = MATH_GATE
              /\ tileAt(grid', <<prompt.x, prompt.y>>).locked]_vars

\* C39 witness: the player died of an answer at a gate that has no puzzle.
C39_Witness ==
    /\ player # Null
    /\ outcome.kind = "Died"
    /\ outcome.message = "Wrong answer! Try again."
    /\ playerTile.type = MATH_GATE
    /\ playerTile.locked
    /\ "answer" \notin DOMAIN playerTile
    /\ "mathGates" \notin DOMAIN currentLevel

\* C31 as stated: after loadLevel of a shipped level, every entry of the
\* level's mathGates list addresses a MathGate tile, and every MathGate tile
\* of the grid carries a question and an expected answer.
C31_ShippedGatesAllBound ==
    (LEVELS = ShippedLevels /\ player # Null) =>
        /\ \A gate \in GateEntries(currentLevel) :
               tileAt(grid, <<gate.x, gate.y>>).type = MATH_GATE
        /\ \A c \in CellsOfType(MATH_GATE) :
               /\ "question" \in DOMAIN tileAt(grid, c)
               /\ "answer" \in DOMAIN tileAt(grid, c)

\* What a move reads of the game: the player without its undo history, and
\* the tiles.
Situation(p, g) ==
    [player |-> [p EXCEPT !.moveHistory = <<>>, !.moveCount = 0],
     grid |-> g, completed |-> FALSE]

\* The situations one key press leads to without a Died outcome, a locked
\* MathGate being answered correctly: the set is empty when the move is
\* blocked or deadly, or when the gate has no answer that is correct.
AfterMove(level, s, d) ==
    LET newX == s.player.x + d[1]
        newY == s.player.y + d[2]
    IN  IF ~isWalkable(level, s.grid, newX, newY) THEN {}
        ELSE LET moved == moveTo(s.player, newX, newY)
                 tile == getTile(level, s.grid, newX, newY)
                 r == handleTileInteraction(moved, s.grid, tile, newX, newY)
             IN  CASE r.call = "playerDied" -> {}
                   [] r.call = "levelCompleted" ->
                        {[Situation(r.player, r.grid) EXCEPT !.completed = TRUE]}
                   [] r.call = "showMathPuzzle" ->
                        IF "answer" \in DOMAIN tile
                        THEN {Situation(r.player,
                                        [r.grid EXCEPT ![newY + 1][newX + 1].locked = FALSE])}
                        ELSE {}
                   [] OTHER -> {Situation(r.player, r.grid)}

\* Every situation that moves lead to from those of frontier, seen included.
RECURSIVE Explore(_, _, _)
Explore(level, seen, frontier) ==
    IF frontier = {} THEN seen
    ELSE LET next == UNION {AfterMove(level, s, d) :
                               s \in {t \in frontier : ~t.completed}, d \in Dirs}
         IN  Explore(level, seen \cup next, next \ seen)

\* Every situation that moves lead to from the initial state of the level:
\* the player red at startPos, the tiles as loaded.
Situations(levelIndex) ==
    LET level == LEVELS[levelIndex + 1]
        first == Situation(newPlayer(level.startPos.x, level.startPos.y, RED),
                           loadLevel(LEVELS,
                                     [currentLevelIndex |-> 0, grid |-> Null],
                                     levelIndex).grid)
    IN  Explore(level, {first}, {first})

CanBeCompleted(levelIndex) == \E s \in Situations(levelIndex) : s.completed

\* C32 as stated: each of the five shipped levels can be completed: from the
\* level's initial state some finite sequence of moves, with correct answers
\* at MathGates, reaches Completed without a Died outcome.
C32_EveryShippedLevelCanBeCompleted ==
    LEVELS = ShippedLevels =>
        \A levelIndex \in 0..(Len(LEVELS) - 1) : CanBeCompleted(levelIndex)

====
